---- MODULE Spec2Model ----
(***************************************************************************)
(* Model of jai.py, a Streamlit script.  Streamlit executes the script     *)
(* from its first line on the initial page load and again on every form    *)
(* submission or rerun, inside one long-lived process.  A script run is    *)
(* modelled as a sequence of steps (pc); the files salary_model.pkl and    *)
(* encoders.pkl outlive the runs, the script's names (env) do not.         *)
(*                                                                         *)
(* Numbers that are fractions in the source (probabilities, confidence)    *)
(* are modelled in hundredths: 0.85 is 85, the interval [0,1] is 0..100.   *)
(***************************************************************************)
EXTENDS Integers, Sequences, FiniteSets, TLC

\* ---------------------------------------------------------------- bounds
\* Script runs (page load, submissions, reruns) explored per process.
MaxRuns == 4

\* ------------------------------------------------------ program constants
HoursMin == 10
HoursMax == 80
HoursDefault == 40
ExperienceMax == 40
ExperienceDefault == 5
AgeMax == 70
AgeDefault == 35
ConfLo == 85
ConfHi == 97

ModelFile == "salary_model.pkl"
EncodersFile == "encoders.pkl"
ArtifactFiles == {ModelFile, EncodersFile}

\* ------------------------------------------------- the opaque artifacts
\* What a local file can hold: nothing ("absent"), bytes pickle cannot
\* deserialize ("garbage": a partial write, or the body of an HTTP error or
\* interstitial page), or a pickled object, named by the object.
Absent == "absent"
Garbage == "garbage"
EncodersPkl == "label_encoders"

\* Sample classifiers a salary_model.pkl can hold.
\*   clfProba    exposes predict_proba, predicts classes 0/1
\*   clfNoProba  the same decision function without predict_proba
\*   clfStale    trained with other income classes: it predicts a class index
\*               the income encoder of encoders.pkl does not know
\*   clfBroken   predict raises (e.g. it expects another number of features)
Classifiers == {"clfProba", "clfNoProba", "clfStale", "clfBroken"}

\* LabelEncoder.classes_ of each encoder in encoders.pkl (sorted, as
\* LabelEncoder.fit leaves them).
Classes(field) ==
    CASE field = "education" -> <<"Bachelors", "HS-grad">>
      [] field = "occupation" -> <<"Exec-managerial", "Sales">>
      [] field = "native-country" -> <<"United-States">>
      [] field = "income" -> <<"<=50K", ">50K">>

Range(s) == {s[i] : i \in DOMAIN s}

\* LabelEncoder.transform([v])[0]: the position of v in classes_, from 0;
\* raises ValueError for a value that is not in classes_.
Known(field, v) == v \in Range(Classes(field))
Transform(field, v) == (CHOOSE i \in DOMAIN Classes(field) : Classes(field)[i] = v) - 1

\* LabelEncoder.inverse_transform([y])[0]; raises ValueError for an unseen y.
Decodable(field, y) == y \in 0..(Len(Classes(field)) - 1)
InverseTransform(field, y) == Classes(field)[y + 1]

\* model.predict_proba(features): one row of class probabilities, hundredths.
ProbaHigh(x) == 10 + 30 * x[1] + 25 * x[2] + 10 * x[3] + (x[4] \div 4)
PredictProba(m, x) ==
    IF m = "clfStale"
    THEN <<10, 20, 70>>
    ELSE <<100 - ProbaHigh(x), ProbaHigh(x)>>

\* numpy argmax / max of a row.
MaxOf(row) == CHOOSE v \in Range(row) : \A w \in Range(row) : w <= v
ArgMax(row) == (CHOOSE i \in DOMAIN row : row[i] = MaxOf(row) /\ \A j \in 1..(i - 1) : row[j] < row[i]) - 1

\* model.predict(features)[0] and whether it raises.
PredictRaises(m, x) == m = "clfBroken" \/ Len(x) # 4
Predict(m, x) == ArgMax(PredictProba(m, x))
HasPredictProba(m) == m \in {"clfProba", "clfStale"}

\* ------------------------------------------------------------------ state
VARIABLES
    pc,             \* position of the running script; "idle" between runs
    files,          \* content of each local artifact file
    remoteModel,    \* the classifier the remote store holds
    env,            \* the names the running script has bound so far
    trace,          \* calls made and elements rendered by the current/last run
    outcome,        \* how the current/last run ended
    runs,           \* script runs started in this process
    modelLoads,     \* successful pickle.load of salary_model.pkl, process-wide
    encLoads,       \* successful pickle.load of encoders.pkl, process-wide
    existedAtStart, \* os.path.exists of each file when the current run began
    formOnPage,     \* the run before the current one rendered profile_form
    ref             \* history: one earlier successful prediction, or <<>>

vars == <<pc, files, remoteModel, env, trace, outcome, runs, modelLoads, encLoads, existedAtStart, formOnPage, ref>>

NoEnv == [n \in {} |-> 0]
Bound(n) == n \in DOMAIN env
Bind(r) == r @@ env

Genuine(f) == IF f = ModelFile THEN remoteModel ELSE EncodersPkl
Deserializable(content) == content \notin {Absent, Garbage}

Did(e) == \E i \in DOMAIN trace : trace[i] = e
Count(e) == Cardinality({i \in DOMAIN trace : trace[i] = e})
Before(e1, e2) == \A i, j \in DOMAIN trace : trace[i] = e1 /\ trace[j] = e2 => i < j

Init ==
    /\ pc = "idle"
    /\ remoteModel \in Classifiers
    /\ files \in {f \in [ArtifactFiles -> {Absent, Garbage, EncodersPkl} \cup Classifiers] :
                    /\ f[ModelFile] \in {Absent, Garbage, remoteModel}
                    /\ f[EncodersFile] \in {Absent, Garbage, EncodersPkl}}
    /\ env = NoEnv
    /\ trace = <<>>
    /\ outcome = "none"
    /\ runs = 0
    /\ modelLoads = 0
    /\ encLoads = 0
    /\ existedAtStart = [f \in ArtifactFiles |-> FALSE]
    /\ formOnPage = FALSE
    /\ ref = <<>>

\* ------------------------------------------------------ ends of a run
\* st.stop(): the run ends, what was rendered stays.
Stop(events) ==
    /\ trace' = trace \o events
    /\ outcome' = "stopped"
    /\ pc' = "idle"
    /\ env' = NoEnv

\* An exception no except clause of the script catches: the run ends without
\* the script rendering anything for it.  In the trace, "raised" follows the
\* call that raised.
Raise(events) ==
    /\ trace' = trace \o events
    /\ outcome' = "uncaught"
    /\ pc' = "idle"
    /\ env' = NoEnv

\* ------------------------------------------------------------ the script
\* Streamlit starts a run of the script: page load, submission or rerun.
StartRun ==
    /\ pc = "idle"
    /\ runs < MaxRuns
    /\ runs' = runs + 1
    /\ pc' = "ensure_model"
    /\ env' = NoEnv
    /\ trace' = <<>>
    /\ outcome' = "running"
    /\ existedAtStart' = [f \in ArtifactFiles |-> files[f] # Absent]
    /\ formOnPage' = Did("form")
    /\ UNCHANGED <<files, remoteModel, modelLoads, encLoads, ref>>

DownloadEvent(f) == IF f = ModelFile THEN "download_model" ELSE "download_encoders"

\* Mutant: both checks test salary_model.pkl.
ExistsModelOnly(f) == files[ModelFile] # Absent

\* os.path.exists(f)
Exists(f) == files[f] # Absent

\* if not os.path.exists(f): download_from_gdrive(id, f)
EnsureArtifact(f, here, next) ==
    /\ pc = here
    /\ \/ /\ Exists(f)
          /\ pc' = next
          /\ UNCHANGED <<files, env, trace, outcome>>
       \/ /\ ~Exists(f)
          \* requests.get returns (whatever the HTTP status), the body is written
          /\ \E body \in {Genuine(f), Garbage} : files' = [files EXCEPT ![f] = body]
          /\ trace' = Append(trace, DownloadEvent(f))
          /\ pc' = next
          /\ UNCHANGED <<env, outcome>>
       \/ /\ ~Exists(f)
          \* requests.get raises: no connection
          /\ Raise(<<DownloadEvent(f), "raised">>)
          /\ UNCHANGED files
       \/ /\ ~Exists(f)
          \* open(dest_path, "wb") or f.write raises: the file is not created,
          \* or is left with a partial body
          /\ \E left \in {Absent, Garbage} : files' = [files EXCEPT ![f] = left]
          /\ Raise(<<DownloadEvent(f), "raised">>)
    /\ UNCHANGED <<remoteModel, runs, modelLoads, encLoads, existedAtStart, formOnPage, ref>>

EnsureModel == EnsureArtifact(ModelFile, "ensure_model", "ensure_encoders")

EnsureEncoders == EnsureArtifact(EncodersFile, "ensure_encoders", "load")

\* try: model = pickle.load(...); encoders = pickle.load(...)
\* except: st.error("Error loading model or encoders"); st.stop()
Load ==
    /\ pc = "load"
    /\ IF ~Deserializable(files[ModelFile])
       THEN /\ Stop(<<"load_model", "raised", "st.error_load">>)
            /\ UNCHANGED <<modelLoads, encLoads>>
       ELSE IF ~Deserializable(files[EncodersFile])
       THEN /\ Stop(<<"load_model", "load_encoders", "raised", "st.error_load">>)
            /\ modelLoads' = modelLoads + 1
            /\ UNCHANGED encLoads
       ELSE /\ env' = Bind([model |-> files[ModelFile], encoders |-> files[EncodersFile]])
            /\ trace' = trace \o <<"load_model", "load_encoders">>
            /\ modelLoads' = modelLoads + 1
            /\ encLoads' = encLoads + 1
            /\ pc' = "form"
            /\ UNCHANGED outcome
    /\ UNCHANGED <<files, remoteModel, runs, existedAtStart, formOnPage, ref>>

\* The values the widgets of profile_form return.  Values other than the
\* defaults, and a pressed submit button, come from the form the run before
\* left on the page; a run after none (the initial page load) or after a run
\* that ended before the form gets the defaults, nothing submitted.
Names == {"", "J"}
\* Sample values of the two sliders the script reads and never uses.
Profiles == {<<ExperienceDefault, AgeDefault>>, <<ExperienceMax, AgeMax>>}
FormValues ==
    {[fname |-> fn, lname |-> ln, experience |-> p[1], age |-> p[2],
      education |-> ed, occupation |-> oc, country |-> co, hours |-> h, submitted |-> sub] :
        fn \in Names, ln \in Names, p \in Profiles,
        ed \in Range(Classes("education")), oc \in Range(Classes("occupation")),
        co \in Range(Classes("native-country")),
        h \in {HoursMin, HoursDefault, HoursMax}, sub \in BOOLEAN}
FormDefaults ==
    [fname |-> "", lname |-> "", experience |-> ExperienceDefault, age |-> AgeDefault,
     education |-> Classes("education")[1], occupation |-> Classes("occupation")[1],
     country |-> Classes("native-country")[1], hours |-> HoursDefault, submitted |-> FALSE]

\* with col1: ... st.form("profile_form") ... form_submit_button
Form ==
    /\ pc = "form"
    /\ \E v \in FormValues :
          /\ ~formOnPage => v = FormDefaults
          /\ env' = Bind(v)
    /\ trace' = Append(trace, "form")
    /\ pc' = "results"
    /\ UNCHANGED <<files, remoteModel, outcome, runs, modelLoads, encLoads, existedAtStart, formOnPage, ref>>

\* Mutant: the names are not tested.
TruthyAlways(s) == TRUE

\* Python truth of a str.
Truthy(s) == s # ""

\* with col2: if submitted and fname and lname: ... else: placeholder
Results ==
    /\ pc = "results"
    /\ IF env.submitted /\ Truthy(env.fname) /\ Truthy(env.lname)
       THEN /\ pc' = "encode"
            /\ UNCHANGED trace
       ELSE /\ pc' = "footer"
            /\ trace' = Append(trace, "placeholder")
    /\ UNCHANGED <<files, remoteModel, env, outcome, runs, modelLoads, encLoads, existedAtStart, formOnPage, ref>>

\* Mutant: education and occupation swapped.
FeaturesSwapped(e) == <<e.occ_enc, e.edu_enc, e.nat_enc, e.hours>>

\* Mutant: the experience slider in the place of the hours slider.
FeaturesExperience(e) == <<e.edu_enc, e.occ_enc, e.nat_enc, e.experience>>

\* features = np.array([[edu_enc, occ_enc, nat_enc, hours]])
Features(e) == <<e.edu_enc, e.occ_enc, e.nat_enc, e.hours>>

\* try: the three transform calls; except: st.error, st.stop; then features
Encode ==
    /\ pc = "encode"
    /\ IF /\ Known("education", env.education)
          /\ Known("occupation", env.occupation)
          /\ Known("native-country", env.country)
       THEN /\ LET e == Bind([edu_enc |-> Transform("education", env.education),
                              occ_enc |-> Transform("occupation", env.occupation),
                              nat_enc |-> Transform("native-country", env.country)])
               IN env' = [features |-> Features(e)] @@ e
            /\ trace' = Append(trace, "transform")
            /\ pc' = "predict"
            /\ UNCHANGED outcome
       ELSE Stop(<<"transform", "raised", "st.error_encoding">>)
    /\ UNCHANGED <<files, remoteModel, runs, modelLoads, encLoads, existedAtStart, formOnPage, ref>>

\* Mutant: np.random.uniform(85, 97), a percentage where a fraction is meant.
UniformDrawsPercent == {100 * ConfLo, 100 * ConfHi}

\* np.random.uniform(0.85, 0.97), hundredths: the two ends of the range.
UniformDraws == {ConfLo, ConfHi}

\* Mutant: the placeholder is drawn whatever the classifier exposes.
ConfidencesDrawn(m, x) == UniformDraws

\* The values confidence can take for classifier m on features x.
Confidences(m, x) ==
    IF HasPredictProba(m) THEN {MaxOf(PredictProba(m, x))} ELSE UniformDraws

\* try: prediction = model.predict(features)[0]; confidence = ...
\* except: st.error, st.stop
PredictStep ==
    /\ pc = "predict"
    /\ IF PredictRaises(env.model, env.features)
       THEN Stop(<<"predict", "raised", "st.error_prediction">>)
       ELSE /\ \E c \in Confidences(env.model, env.features) :
                 env' = Bind([prediction |-> Predict(env.model, env.features), confidence |-> c])
            /\ trace' = trace \o (IF HasPredictProba(env.model)
                                  THEN <<"predict", "predict_proba">> ELSE <<"predict">>)
            /\ pc' = "decode"
            /\ UNCHANGED outcome
    /\ UNCHANGED <<files, remoteModel, runs, modelLoads, encLoads, existedAtStart, formOnPage, ref>>

\* label = encoders['income'].inverse_transform([prediction])[0], in no try
Decode ==
    /\ pc = "decode"
    /\ IF Decodable("income", env.prediction)
       THEN /\ env' = Bind([label |-> InverseTransform("income", env.prediction)])
            /\ trace' = Append(trace, "inverse_transform")
            /\ pc' = "render"
            /\ UNCHANGED outcome
       ELSE Raise(<<"inverse_transform", "raised">>)
    /\ UNCHANGED <<files, remoteModel, runs, modelLoads, encLoads, existedAtStart, formOnPage, ref>>

\* History: what a successful prediction was computed from and what it gave.
Submission(e) ==
    [run |-> runs, classifier |-> e.model, encoders |-> e.encoders,
     education |-> e.education, occupation |-> e.occupation, country |-> e.country,
     hours |-> e.hours, fname |-> e.fname, lname |-> e.lname,
     experience |-> e.experience, age |-> e.age,
     label |-> e.label, confidence |-> e.confidence]

\* The prediction summary and the gauge chart.
Render ==
    /\ pc = "render"
    /\ trace' = trace \o <<"summary", "gauge">>
    /\ pc' = "footer"
    /\ ref' \in (IF ref = <<>> THEN {<<>>, Submission(env)} ELSE {ref})
    /\ UNCHANGED <<files, remoteModel, env, outcome, runs, modelLoads, encLoads, existedAtStart, formOnPage>>

\* The footer; the script ends.
Footer ==
    /\ pc = "footer"
    /\ trace' = Append(trace, "footer")
    /\ outcome' = "completed"
    /\ pc' = "idle"
    /\ env' = NoEnv
    /\ UNCHANGED <<files, remoteModel, runs, modelLoads, encLoads, existedAtStart, formOnPage, ref>>

\* Environment: somebody deletes a local artifact file between runs.  Nothing
\* but the script and this action touches the files; one session is modelled.
RemoveFile ==
    /\ pc = "idle"
    /\ \E f \in ArtifactFiles :
          /\ files[f] # Absent
          /\ files' = [files EXCEPT ![f] = Absent]
    /\ UNCHANGED <<pc, remoteModel, env, trace, outcome, runs, modelLoads, encLoads, existedAtStart, formOnPage, ref>>

Next ==
    \/ StartRun
    \/ EnsureModel
    \/ EnsureEncoders
    \/ Load
    \/ Form
    \/ Results
    \/ Encode
    \/ PredictStep
    \/ Decode
    \/ Render
    \/ Footer
    \/ RemoveFile

Spec == Init /\ [][Next]_vars

\* ------------------------------------------------------------ properties
Ended == pc = "idle" /\ outcome \in {"completed", "stopped", "uncaught"}
LoadEvents == {"load_model", "load_encoders"}
PipelineCalls == {"transform", "predict", "predict_proba", "inverse_transform"}
RaisedAfter(calls) ==
    \E i \in DOMAIN trace : i > 1 /\ trace[i] = "raised" /\ trace[i - 1] \in calls
ModelDownloadRaised == RaisedAfter({"download_model"})
DownloadedBeforeLoad(f) == \A l \in LoadEvents : Before(DownloadEvent(f), l)

\* C1 (as stated): a run that starts with an artifact file absent makes exactly
\* one download attempt for it, before any load; a run that starts with the
\* file present makes none.
C1_ExactlyOneDownload ==
    Ended =>
        \A f \in ArtifactFiles :
            /\ ~existedAtStart[f] => Count(DownloadEvent(f)) = 1 /\ DownloadedBeforeLoad(f)
            /\ existedAtStart[f] => Count(DownloadEvent(f)) = 0

\* C1 (amended): at most one download attempt per artifact and run, none for a
\* file present at the start, every attempt before any load; exactly one for an
\* absent file in every run that ended, except for encoders.pkl when the
\* download of salary_model.pkl raised.
C1_OneDownloadUnlessRaised ==
    \A f \in ArtifactFiles :
        /\ Count(DownloadEvent(f)) <= 1
        /\ DownloadedBeforeLoad(f)
        /\ existedAtStart[f] => Count(DownloadEvent(f)) = 0
        /\ (Ended /\ ~existedAtStart[f] /\ ~(f = EncodersFile /\ ModelDownloadRaised))
              => Count(DownloadEvent(f)) = 1

C1_Witness ==
    /\ Ended
    /\ \A f \in ArtifactFiles : ~existedAtStart[f] /\ Count(DownloadEvent(f)) = 1
    /\ Did("load_model")

\* C2: across the runs of one process the classifier and the encoders are each
\* deserialized at most once.
C2_LoadedAtMostOnce == modelLoads <= 1 /\ encLoads <= 1

\* C3: every failure to obtain the artifacts at startup (a download or a load
\* that raises) shows the load-error message and ends the run before the form
\* and before any encode, predict or decode call.
C3_StartupFailureShowsLoadError ==
    RaisedAfter({"download_model", "download_encoders"} \cup LoadEvents) =>
        /\ Did("st.error_load")
        /\ outcome = "stopped"
        /\ ~Did("form")
        /\ \A c \in PipelineCalls : ~Did(c)

\* C4: while the form values of a run are bound: unless the form was submitted
\* with both names non-empty, no encode, predict or decode call is made and no
\* summary or gauge is rendered, and the placeholder is shown by the time the
\* footer is reached; the summary and gauge appear only for a submission with
\* both names non-empty.
C4_NoPredictionWithoutNames ==
    Bound("submitted") =>
        LET complete == env.submitted /\ env.fname # "" /\ env.lname # ""
        IN /\ ~complete =>
                /\ \A c \in PipelineCalls \cup {"summary", "gauge"} : ~Did(c)
                /\ pc = "footer" => Did("placeholder")
           /\ (Did("summary") \/ Did("gauge")) => complete /\ ~Did("placeholder")

C4_Witness ==
    /\ pc = "footer"
    /\ Bound("submitted")
    /\ env.submitted /\ env.fname # "" /\ env.lname = ""
    /\ Did("placeholder")

\* C5: when a step of the pipeline raises (a transform, predict or
\* predict_proba, or inverse_transform), the run stops there with an error
\* message rendered by st.error as its last element, neither summary nor gauge
\* is rendered, and no call is made twice.
C5_PipelineFailureShowsError ==
    RaisedAfter(PipelineCalls) =>
        /\ outcome = "stopped"
        /\ trace[Len(trace)] \in {"st.error_encoding", "st.error_prediction"}
        /\ ~Did("summary") /\ ~Did("gauge")
        /\ \A c \in PipelineCalls : Count(c) <= 1

\* C6: every confidence a prediction produces lies in [0,1] (0..100 hundredths),
\* with and without predict_proba.
C6_ConfidenceInUnitInterval ==
    Bound("confidence") => env.confidence \in 0..100

C6_Witness ==
    /\ Did("gauge")
    /\ Bound("confidence")
    /\ ~HasPredictProba(env.model)
    /\ ~Did("predict_proba")

\* The running script has a prediction for the same artifacts and the same
\* education, occupation, country and hours as the remembered submission.
SameInputsAsRef ==
    /\ ref # <<>>
    /\ Bound("label")
    /\ ref.classifier = env.model /\ ref.encoders = env.encoders
    /\ ref.education = env.education /\ ref.occupation = env.occupation
    /\ ref.country = env.country /\ ref.hours = env.hours

\* C7: two submissions with the same artifacts and the same four input fields
\* get the same label and, when the classifier exposes predict_proba, the same
\* confidence, whatever was submitted in between.
C7_Deterministic ==
    SameInputsAsRef =>
        /\ env.label = ref.label
        /\ HasPredictProba(env.model) => env.confidence = ref.confidence

\* ... with another submission between the two.
C7_Witness ==
    /\ SameInputsAsRef
    /\ HasPredictProba(env.model)
    /\ runs > ref.run + 1

\* C8: the vector given to predict has four components: the code each field's
\* own encoder assigns to the selected education, occupation and country, then
\* the slider's hours, which lie in 10..80.
C8_FeatureVector ==
    Bound("features") =>
        /\ Len(env.features) = 4
        /\ Classes("education")[env.features[1] + 1] = env.education
        /\ Classes("occupation")[env.features[2] + 1] = env.occupation
        /\ Classes("native-country")[env.features[3] + 1] = env.country
        /\ env.features[4] = env.hours
        /\ env.hours \in HoursMin..HoursMax

C8_Witness ==
    /\ Did("predict")
    /\ Bound("features")
    /\ env.features[1] # env.features[2]
    /\ env.hours = HoursMax

\* C9: a local file that exists at the start of a run is never downloaded in
\* that run, and if it exists with content that cannot be deserialized the run
\* ends in the load error.
C9_ExistingFileReused ==
    \A f \in ArtifactFiles :
        /\ existedAtStart[f] => ~Did(DownloadEvent(f))
        /\ (Ended /\ existedAtStart[f] /\ files[f] = Garbage) => Did("st.error_load")

====
